---- MODULE Spec2Model ----
(***************************************************************************)
(* Model of src/src/components/Connector.jsx: a React component that       *)
(* connects to an EIP-1193 wallet provider.  The component's view state    *)
(* (provider, accounts, chainId, isConnected) is the state of the machine; *)
(* every click handler is an asynchronous function that is suspended at    *)
(* each `await provider.request(...)` until the provider answers.          *)
(***************************************************************************)
EXTENDS Integers, Sequences, FiniteSets, TLC

VARIABLES
    windowEthereum, \* what the page injects: "absent", "full", "noRemoveListener"
    phase,          \* lifetime of the component: "created", "mounted", "unmounted"
    provider,       \* useState(null), line 4: "null" or "ethereum"
    accounts,       \* useState([]), line 5
    chainId,        \* useState(''), line 6
    isConnected,    \* useState(false), line 7
    effectDep,      \* value of `provider` the listener effect last ran with
    listeners,      \* handlers registered on the provider, per event name
    inv,            \* the table of click-handler invocations
    lastEvent       \* the handler step that produced the current state

vars == <<windowEthereum, phase, provider, accounts, chainId, isConnected,
          effectDep, listeners, inv, lastEvent>>

----------------------------------------------------------------------------
\* Bounds of the model

\* number of click-handler invocations that can be in progress at once
MaxInv == 2

----------------------------------------------------------------------------
\* Literals of the component

MAINNET_CHAIN_ID == "0x1"
SEPOLIA_CHAIN_ID == "0xaa36a7"
MANTLE_CHAIN_ID == "0x1388"
TRANSFER_TO == "0x5b522A979ea2a5121b651756CD4274C92386f8C2"
TRANSFER_VALUE == "0x38D7EA4C68000"
CHAIN_NOT_ADDED == 4902

----------------------------------------------------------------------------
\* Inputs the provider can produce

Addr1 == "0xA1"
Addr2 == "0xA2"

\* payloads of accountsChanged and results of eth_requestAccounts
AccountLists == { <<>>, <<Addr1>>, <<Addr2, Addr1>> }

\* payloads of chainChanged and results of eth_chainId
ChainIds == { MAINNET_CHAIN_ID, SEPOLIA_CHAIN_ID, MANTLE_CHAIN_ID }

\* a rejection: an error object with an optional numeric code
Errors == { [hasCode |-> TRUE, code |-> 4001],
            [hasCode |-> TRUE, code |-> CHAIN_NOT_ADDED],
            [hasCode |-> FALSE, code |-> 0] }

Event(kind, id, accts, chain) ==
    [kind |-> kind, id |-> id, payload |-> [accounts |-> accts, chainId |-> chain]]

----------------------------------------------------------------------------
\* provider.request({method, params})

Request(method, params) == [method |-> method, params |-> params]

\* A slot of the invocation table that holds no invocation
Idle == [op |-> "none", pc |-> "idle", reqs |-> <<>>, out |-> <<>>, changed |-> FALSE]

\* A fresh invocation of click handler op
NewInvocation(op) == [Idle EXCEPT !.op = op, !.pc = "running"]

\* The invocations still in progress: the frame of a handler that has returned
\* is kept for one step (so that its outcome can be observed) and then dropped
Live == [i \in DOMAIN inv |-> IF inv[i].pc = "done" THEN Idle ELSE inv[i]]

Init ==
    /\ windowEthereum \in {"absent", "full", "noRemoveListener"}
    /\ phase = "created"
    /\ provider = "null"
    /\ accounts = <<>>
    /\ chainId = ""
    /\ isConnected = FALSE
    /\ effectDep = "null"
    /\ listeners = [accountsChanged |-> 0, chainChanged |-> 0]
    /\ inv = [i \in 1..MaxInv |-> Idle]
    /\ lastEvent = Event("init", 0, <<>>, "")

----------------------------------------------------------------------------
\* Effects

\* First commit: the effect of lines 12-16 stores window.ethereum; the effect
\* of lines 19-50 runs with the first render's provider (null) and returns.
Mount ==
    /\ phase = "created"
    /\ phase' = "mounted"
    /\ provider' = IF windowEthereum # "absent" THEN "ethereum" ELSE provider
    /\ lastEvent' = Event("mount", 0, <<>>, "")
    /\ inv' = Live
    /\ UNCHANGED <<windowEthereum, accounts, chainId, isConnected, effectDep,
                   listeners>>

\* provider.on(name, handler) for both events, lines 40-41
providerOn(l) ==
    [l EXCEPT !.accountsChanged = @ + 1, !.chainChanged = @ + 1]

\* effectCleanup that removes only the accountsChanged handler
effectCleanup_accountsOnly(l) ==
    IF windowEthereum = "full"
    THEN [l EXCEPT !.accountsChanged = IF @ > 0 THEN @ - 1 ELSE 0]
    ELSE l

\* the cleanup function, lines 44-49
effectCleanup(l) ==
    IF windowEthereum = "full"
    THEN [l EXCEPT !.accountsChanged = IF @ > 0 THEN @ - 1 ELSE 0,
                   !.chainChanged = IF @ > 0 THEN @ - 1 ELSE 0]
    ELSE l

\* The listener effect re-runs because its dependency `provider` changed.
ListenerEffect ==
    /\ phase = "mounted"
    /\ effectDep # provider
    /\ effectDep' = provider
    /\ listeners' = IF provider = "null" THEN listeners ELSE providerOn(listeners)
    /\ lastEvent' = Event("effect", 0, <<>>, "")
    /\ inv' = Live
    /\ UNCHANGED <<windowEthereum, phase, provider, accounts, chainId,
                   isConnected>>

\* The panel is removed: the cleanup of the last run of the listener effect runs.
Unmount ==
    /\ phase = "mounted"
    /\ phase' = "unmounted"
    /\ listeners' = IF effectDep = "null" THEN listeners ELSE effectCleanup(listeners)
    /\ lastEvent' = Event("unmount", 0, <<>>, "")
    /\ inv' = Live
    /\ UNCHANGED <<windowEthereum, provider, accounts, chainId, isConnected,
                   effectDep>>

----------------------------------------------------------------------------
\* Notifications

\* handleAccountsChanged without the branch for an empty payload
handleAccountsChanged_noBranch(payload) ==
    accounts' = payload /\ isConnected' = TRUE

handleAccountsChanged(payload) ==
    IF Len(payload) > 0
    THEN accounts' = payload /\ isConnected' = TRUE
    ELSE accounts' = <<>> /\ isConnected' = FALSE

\* handleChainChanged that stores the shadowed state variable, not its argument
handleChainChanged_shadowed(payload) ==
    chainId' = chainId

handleChainChanged(payload) ==
    chainId' = payload

\* The provider emits accountsChanged; every registered handler is called.
EmitAccountsChanged(payload) ==
    /\ windowEthereum # "absent"
    /\ IF listeners.accountsChanged > 0
       THEN /\ handleAccountsChanged(payload)
            /\ lastEvent' = Event("accountsChanged", 0, payload, "")
       ELSE /\ UNCHANGED <<accounts, isConnected>>
            /\ lastEvent' = Event("unheard", 0, payload, "")
    /\ inv' = Live
    /\ UNCHANGED <<windowEthereum, phase, provider, chainId, effectDep, listeners>>

\* The provider emits chainChanged; every registered handler is called.
EmitChainChanged(payload) ==
    /\ windowEthereum # "absent"
    /\ IF listeners.chainChanged > 0
       THEN /\ handleChainChanged(payload)
            /\ lastEvent' = Event("chainChanged", 0, <<>>, payload)
       ELSE /\ UNCHANGED chainId
            /\ lastEvent' = Event("unheard", 0, <<>>, payload)
    /\ inv' = Live
    /\ UNCHANGED <<windowEthereum, phase, provider, accounts, isConnected,
                   effectDep, listeners>>

----------------------------------------------------------------------------
\* Click handlers.  A handler runs up to its first await when the button is
\* clicked; each later segment runs when the provider answers that request.
\* A handler reads the state of the render it was created in, which is the
\* current state at the click.

Free(i) == Live[i].pc = "idle"

\* the slot a new invocation takes: the first one not in progress
NextSlot == CHOOSE i \in 1..MaxInv : Free(i) /\ \A j \in 1..(i - 1) : ~Free(j)

Clickable == phase = "mounted" /\ \E i \in 1..MaxInv : Free(i)

\* The handler returns (normally) after logging msgs
Return(r, msgs) == [r EXCEPT !.pc = "done", !.out = @ \o msgs]

\* The handler calls provider.request and is suspended at the await
Await(r, pc, method, params) ==
    [r EXCEPT !.pc = pc, !.reqs = Append(@, Request(method, params))]

Pending(i, pc) == inv[i].pc = pc

\* ---- connect, lines 53-72

\* connectStart without the guard on the provider handle
connectStart_unguarded(r) ==
    Await(r, "awaitAccounts", "eth_requestAccounts", <<>>)

connectStart(r) ==
    IF provider = "null"
    THEN Return(r, <<>>)
    ELSE Await(r, "awaitAccounts", "eth_requestAccounts", <<>>)

connect ==
    /\ Clickable
    /\ inv' = [Live EXCEPT ![NextSlot] = connectStart(NewInvocation("connect"))]
    /\ lastEvent' = Event("connect", NextSlot, <<>>, "")
    /\ UNCHANGED <<windowEthereum, phase, provider, accounts, chainId,
                   isConnected, effectDep, listeners>>

\* connectAccounts that stores the accounts but forgets setIsConnected(true)
connectAccounts_flagKept(i, result) ==
    /\ Pending(i, "awaitAccounts")
    /\ accounts' = result
    /\ isConnected' = isConnected
    /\ inv' = [Live EXCEPT ![i] =
                 Await([@ EXCEPT !.changed = (accounts' # accounts)],
                       "awaitChainId", "eth_chainId", <<>>)]
    /\ lastEvent' = Event("resolved", i, result, "")
    /\ UNCHANGED <<windowEthereum, phase, provider, chainId, effectDep, listeners>>

\* eth_requestAccounts resolved: lines 60-65
connectAccounts(i, result) ==
    /\ Pending(i, "awaitAccounts")
    /\ accounts' = result
    /\ isConnected' = TRUE
    /\ inv' = [Live EXCEPT ![i] =
                 Await([@ EXCEPT !.changed = (accounts' # accounts \/ ~isConnected)],
                       "awaitChainId", "eth_chainId", <<>>)]
    /\ lastEvent' = Event("resolved", i, result, "")
    /\ UNCHANGED <<windowEthereum, phase, provider, chainId, effectDep, listeners>>

\* eth_chainId resolved: lines 66-68
connectChainId(i, currentChainId) ==
    /\ Pending(i, "awaitChainId")
    /\ chainId' = currentChainId
    /\ inv' = [Live EXCEPT ![i] =
                 Return([@ EXCEPT !.changed = (@ \/ chainId' # chainId)],
                        <<"Connected:">>)]
    /\ lastEvent' = Event("resolved", i, <<>>, currentChainId)
    /\ UNCHANGED <<windowEthereum, phase, provider, accounts, isConnected,
                   effectDep, listeners>>

\* either request rejected: the catch block, lines 69-71
connectCatch(i, error) ==
    /\ Pending(i, "awaitAccounts") \/ Pending(i, "awaitChainId")
    /\ inv' = [Live EXCEPT ![i] = Return(@, <<"Connection error:">>)]
    /\ lastEvent' = Event("rejected", i, <<>>, "")
    /\ UNCHANGED <<windowEthereum, phase, provider, accounts, chainId,
                   isConnected, effectDep, listeners>>

\* ---- toggleChain, lines 75-95

\* targetChainId with the comparison made against the primary id
targetChainId_swapped(current) ==
    IF current = MAINNET_CHAIN_ID THEN SEPOLIA_CHAIN_ID ELSE MAINNET_CHAIN_ID

targetChainId(current) ==
    IF current = SEPOLIA_CHAIN_ID THEN MAINNET_CHAIN_ID ELSE SEPOLIA_CHAIN_ID

toggleChainStart(r) ==
    IF provider = "null"
    THEN Return(r, <<>>)
    ELSE Await(r, "awaitSwitch", "wallet_switchEthereumChain",
               <<[chainId |-> targetChainId(chainId)]>>)

toggleChain ==
    /\ Clickable
    /\ inv' = [Live EXCEPT ![NextSlot] = toggleChainStart(NewInvocation("toggleChain"))]
    /\ lastEvent' = Event("toggleChain", NextSlot, <<>>, "")
    /\ UNCHANGED <<windowEthereum, phase, provider, accounts, chainId,
                   isConnected, effectDep, listeners>>

\* toggleChainSwitched that stores the requested target as the chain identifier
toggleChainSwitched_storesTarget(i) ==
    /\ Pending(i, "awaitSwitch")
    /\ chainId' = inv[i].reqs[1].params[1].chainId
    /\ inv' = [Live EXCEPT ![i] = Return(@, <<"Switching to">>)]
    /\ lastEvent' = Event("resolved", i, <<>>, "")
    /\ UNCHANGED <<windowEthereum, phase, provider, accounts,
                   isConnected, effectDep, listeners>>

\* wallet_switchEthereumChain resolved: line 86
toggleChainSwitched(i) ==
    /\ Pending(i, "awaitSwitch")
    /\ inv' = [Live EXCEPT ![i] = Return(@, <<"Switching to">>)]
    /\ lastEvent' = Event("resolved", i, <<>>, "")
    /\ UNCHANGED <<windowEthereum, phase, provider, accounts, chainId,
                   isConnected, effectDep, listeners>>

\* the messages of the catch block, lines 87-94
toggleChainMessages(error) ==
    IF error.hasCode /\ error.code = CHAIN_NOT_ADDED
    THEN <<"Error switching chain:", "Chain not available, please add it first">>
    ELSE <<"Error switching chain:">>

\* toggleChainCatch that throws again every error it does not recognise
toggleChainCatch_rethrow(i, error) ==
    /\ Pending(i, "awaitSwitch")
    /\ inv' = [Live EXCEPT ![i] =
                 IF error.hasCode /\ error.code = CHAIN_NOT_ADDED
                 THEN Return(@, toggleChainMessages(error))
                 ELSE [@ EXCEPT !.pc = "threw", !.out = @ \o <<"Error switching chain:">>]]
    /\ lastEvent' = Event("rejected", i, <<>>, "")
    /\ UNCHANGED <<windowEthereum, phase, provider, accounts, chainId,
                   isConnected, effectDep, listeners>>

\* toggleChainCatch that registers the chain itself when the code is 4902
toggleChainCatch_autoAdd(i, error) ==
    /\ Pending(i, "awaitSwitch")
    /\ inv' = [Live EXCEPT ![i] =
                 IF error.hasCode /\ error.code = CHAIN_NOT_ADDED
                 THEN Await([@ EXCEPT !.out = @ \o <<"Error switching chain:">>],
                            "awaitAdd", "wallet_addEthereumChain", <<MANTLE_CHAIN_ID>>)
                 ELSE Return(@, toggleChainMessages(error))]
    /\ lastEvent' = Event("rejected", i, <<>>, "")
    /\ UNCHANGED <<windowEthereum, phase, provider, accounts, chainId,
                   isConnected, effectDep, listeners>>

toggleChainCatch(i, error) ==
    /\ Pending(i, "awaitSwitch")
    /\ inv' = [Live EXCEPT ![i] = Return(@, toggleChainMessages(error))]
    /\ lastEvent' = Event("rejected", i, <<>>, "")
    /\ UNCHANGED <<windowEthereum, phase, provider, accounts, chainId,
                   isConnected, effectDep, listeners>>

\* ---- addChain, lines 98-122

MantleDescriptor ==
    [chainId |-> MANTLE_CHAIN_ID, chainName |-> "Mantle",
     rpcUrls |-> <<"https://rpc.mantle.xyz">>,
     nativeCurrency |-> [name |-> "Mantle", symbol |-> "MNT", decimals |-> 18],
     blockExplorerUrls |-> <<"https://mantlescan.xyz">>]

addChainStart(r) ==
    IF provider = "null"
    THEN Return(r, <<>>)
    ELSE Await(r, "awaitAdd", "wallet_addEthereumChain", <<MantleDescriptor>>)

addChain ==
    /\ Clickable
    /\ inv' = [Live EXCEPT ![NextSlot] = addChainStart(NewInvocation("addChain"))]
    /\ lastEvent' = Event("addChain", NextSlot, <<>>, "")
    /\ UNCHANGED <<windowEthereum, phase, provider, accounts, chainId,
                   isConnected, effectDep, listeners>>

\* wallet_addEthereumChain resolved: line 118
addChainAdded(i) ==
    /\ Pending(i, "awaitAdd")
    /\ inv' = [Live EXCEPT ![i] = Return(@, <<"Mantle network added">>)]
    /\ lastEvent' = Event("resolved", i, <<>>, "")
    /\ UNCHANGED <<windowEthereum, phase, provider, accounts, chainId,
                   isConnected, effectDep, listeners>>

\* the catch block, lines 119-121
addChainCatch(i, error) ==
    /\ Pending(i, "awaitAdd")
    /\ inv' = [Live EXCEPT ![i] = Return(@, <<"Error adding chain:">>)]
    /\ lastEvent' = Event("rejected", i, <<>>, "")
    /\ UNCHANGED <<windowEthereum, phase, provider, accounts, chainId,
                   isConnected, effectDep, listeners>>

\* ---- transferAccount, lines 125-146

\* transactionParams that sends from the last account of the list
transactionParams_last(accts) ==
    <<[from |-> accts[Len(accts)], to |-> TRANSFER_TO, value |-> TRANSFER_VALUE]>>

transactionParams(accts) ==
    <<[from |-> accts[1], to |-> TRANSFER_TO, value |-> TRANSFER_VALUE]>>

\* transferAccountStart without the check of the active chain
transferAccountStart_anyChain(r) ==
    IF provider = "null" \/ Len(accounts) = 0
    THEN Return(r, <<>>)
    ELSE Await(r, "awaitTx", "eth_sendTransaction", transactionParams(accounts))

transferAccountStart(r) ==
    IF provider = "null" \/ Len(accounts) = 0
    THEN Return(r, <<>>)
    ELSE IF chainId # SEPOLIA_CHAIN_ID
         THEN Return(r, <<"Please switch to Sepolia network first">>)
         ELSE Await(r, "awaitTx", "eth_sendTransaction", transactionParams(accounts))

transferAccount ==
    /\ Clickable
    /\ inv' = [Live EXCEPT ![NextSlot] =
                 transferAccountStart(NewInvocation("transferAccount"))]
    /\ lastEvent' = Event("transferAccount", NextSlot, <<>>, "")
    /\ UNCHANGED <<windowEthereum, phase, provider, accounts, chainId,
                   isConnected, effectDep, listeners>>

\* eth_sendTransaction resolved: line 142
transferAccountSent(i) ==
    /\ Pending(i, "awaitTx")
    /\ inv' = [Live EXCEPT ![i] = Return(@, <<"Transaction sent:">>)]
    /\ lastEvent' = Event("resolved", i, <<>>, "")
    /\ UNCHANGED <<windowEthereum, phase, provider, accounts, chainId,
                   isConnected, effectDep, listeners>>

\* the catch block, lines 143-145
transferAccountCatch(i, error) ==
    /\ Pending(i, "awaitTx")
    /\ inv' = [Live EXCEPT ![i] = Return(@, <<"Transaction error:">>)]
    /\ lastEvent' = Event("rejected", i, <<>>, "")
    /\ UNCHANGED <<windowEthereum, phase, provider, accounts, chainId,
                   isConnected, effectDep, listeners>>

\* ---- disconnect, lines 149-157

\* disconnectReset that forgets setChainId('')
disconnectReset_keepChain ==
    [accounts |-> <<>>, chainId |-> chainId, isConnected |-> FALSE]

\* the view state disconnect sets, lines 153-155
disconnectReset ==
    [accounts |-> <<>>, chainId |-> "", isConnected |-> FALSE]

\* disconnect that also abandons the invocations still waiting for the provider
disconnect_cancelling ==
    /\ Clickable
    /\ accounts' = disconnectReset.accounts
    /\ chainId' = disconnectReset.chainId
    /\ isConnected' = disconnectReset.isConnected
    /\ inv' = [[i \in 1..MaxInv |-> Idle] EXCEPT ![NextSlot] =
                 Return([NewInvocation("disconnect") EXCEPT
                           !.changed = (accounts' # accounts \/ chainId' # chainId
                                        \/ isConnected' # isConnected)],
                        <<"Disconnected">>)]
    /\ lastEvent' = Event("disconnect", NextSlot, <<>>, "")
    /\ UNCHANGED <<windowEthereum, phase, provider, effectDep, listeners>>

disconnect ==
    /\ Clickable
    /\ IF provider = "null"
       THEN /\ inv' = [Live EXCEPT ![NextSlot] = Return(NewInvocation("disconnect"), <<>>)]
            /\ UNCHANGED <<accounts, chainId, isConnected>>
       ELSE /\ accounts' = disconnectReset.accounts
            /\ chainId' = disconnectReset.chainId
            /\ isConnected' = disconnectReset.isConnected
            /\ inv' = [Live EXCEPT ![NextSlot] =
                         Return([NewInvocation("disconnect") EXCEPT
                                   !.changed = (accounts' # accounts \/ chainId' # chainId
                                                \/ isConnected' # isConnected)],
                                <<"Disconnected">>)]
    /\ lastEvent' = Event("disconnect", NextSlot, <<>>, "")
    /\ UNCHANGED <<windowEthereum, phase, provider, effectDep, listeners>>

\* ---- getNetworkName, lines 159-170 (called by the render, line 195)

\* getNetworkName without the case for "0x1388"
getNetworkName_noMantle(id) ==
    CASE id = MAINNET_CHAIN_ID -> "Ethereum Mainnet"
      [] id = SEPOLIA_CHAIN_ID -> "Sepolia Testnet"
      [] OTHER -> "Unknown Network"

getNetworkName(id) ==
    CASE id = MAINNET_CHAIN_ID -> "Ethereum Mainnet"
      [] id = SEPOLIA_CHAIN_ID -> "Sepolia Testnet"
      [] id = "0x1388" -> "Mantle"
      [] OTHER -> "Unknown Network"

----------------------------------------------------------------------------

Next ==
    \/ Mount
    \/ ListenerEffect
    \/ Unmount
    \/ \E payload \in AccountLists : EmitAccountsChanged(payload)
    \/ \E payload \in ChainIds : EmitChainChanged(payload)
    \/ connect
    \/ \E i \in 1..MaxInv, result \in AccountLists : connectAccounts(i, result)
    \/ \E i \in 1..MaxInv, c \in ChainIds : connectChainId(i, c)
    \/ \E i \in 1..MaxInv, error \in Errors : connectCatch(i, error)
    \/ toggleChain
    \/ \E i \in 1..MaxInv : toggleChainSwitched(i)
    \/ \E i \in 1..MaxInv, error \in Errors : toggleChainCatch(i, error)
    \/ addChain
    \/ \E i \in 1..MaxInv : addChainAdded(i)
    \/ \E i \in 1..MaxInv, error \in Errors : addChainCatch(i, error)
    \/ transferAccount
    \/ \E i \in 1..MaxInv : transferAccountSent(i)
    \/ \E i \in 1..MaxInv, error \in Errors : transferAccountCatch(i, error)
    \/ disconnect

Spec == Init /\ [][Next]_vars

----------------------------------------------------------------------------
\* Observations used by the properties

Slots == 1..MaxInv

\* the methods invocation record r has requested, in order
Methods(r) == [k \in DOMAIN r.reqs |-> r.reqs[k].method]

\* record r has requested method m
Requested(r, m) == \E k \in DOMAIN r.reqs : r.reqs[k].method = m

\* this step is a click on the button of handler op, run as invocation i
Clicked(op, i) == lastEvent'.kind = op /\ lastEvent'.id = i

\* this step is the provider resolving / rejecting the request of invocation i
Resolved(i) == lastEvent'.kind = "resolved" /\ lastEvent'.id = i
Rejected(i) == lastEvent'.kind = "rejected" /\ lastEvent'.id = i

\* every invocation except i is left as it was by this step
OthersKept(i) == \A j \in Slots \ {i} : inv'[j] = Live[j]

----------------------------------------------------------------------------
\* C1: in every reachable state the connection flag is true if and only if
\* the account list is non-empty.
C1_FlagIffAccounts ==
    isConnected <=> (accounts # <<>>)

\* C2: when connect() fails, whichever of its two requests was rejected, the
\* invocation has changed none of the account list, the chain identifier and
\* the connection flag.
C2_FailedConnectChangedNothing ==
    \A i \in Slots :
        (inv[i].op = "connect" /\ inv[i].pc = "done"
            /\ inv[i].out = <<"Connection error:">>)
        => ~inv[i].changed

\* C3: while no provider handle is present, whatever handlers have been
\* invoked, no invocation has issued a provider request and the account list
\* is empty, the chain identifier is empty and the connection flag is false.
C3_NoProviderNoOp ==
    provider = "null" =>
        /\ \A i \in Slots : inv[i].reqs = <<>> /\ ~inv[i].changed
        /\ \A i \in Slots : inv[i].pc \in {"idle", "done"}
        /\ accounts = <<>>
        /\ chainId = ""
        /\ isConnected = FALSE

\* C3 witness: a handler has been invoked and has returned without a provider
C3_Witness ==
    /\ provider = "null"
    /\ phase = "mounted"
    /\ \E i \in Slots : inv[i].op = "transferAccount" /\ inv[i].pc = "done"

\* C4: when eth_requestAccounts of a connect() resolves with a non-empty list,
\* that step stores the list, sets the connection flag and only then issues
\* eth_chainId; the result of eth_chainId is stored as the chain identifier;
\* eth_chainId is issued by no other step of connect(), and never once the
\* account request was rejected.
C4_ConnectSequence ==
    [][\A i \in Slots :
        inv[i].op = "connect" =>
          /\ (Resolved(i) /\ inv[i].pc = "awaitAccounts"
                /\ lastEvent'.payload.accounts # <<>>)
             => /\ accounts' = lastEvent'.payload.accounts
                /\ isConnected' = TRUE
                /\ Methods(inv[i]) = <<"eth_requestAccounts">>
                /\ Methods(inv'[i]) = <<"eth_requestAccounts", "eth_chainId">>
                /\ inv'[i].pc = "awaitChainId"
          /\ (Resolved(i) /\ inv[i].pc = "awaitChainId")
             => /\ chainId' = lastEvent'.payload.chainId
                /\ inv'[i].pc = "done"
                /\ inv'[i].reqs = inv[i].reqs
          /\ (Requested(inv'[i], "eth_chainId") /\ ~Requested(inv[i], "eth_chainId")
                /\ inv'[i].op = "connect")
             => Resolved(i) /\ inv[i].pc = "awaitAccounts"
                   /\ accounts' = lastEvent'.payload.accounts /\ isConnected'
          /\ (Rejected(i) /\ inv[i].pc = "awaitAccounts")
             => inv'[i].pc = "done" /\ ~Requested(inv'[i], "eth_chainId")
      ]_vars

\* C4 witness: a connect() has run to its end with a non-empty account list
C4_Witness ==
    \E i \in Slots :
        /\ inv[i].op = "connect" /\ inv[i].pc = "done"
        /\ inv[i].out = <<"Connected:">>
        /\ lastEvent.kind = "resolved" /\ lastEvent.id = i
        /\ accounts = <<Addr2, Addr1>> /\ isConnected
        /\ chainId = "0xaa36a7"

\* C5: a transferAccount() invoked when the account list is empty or the chain
\* identifier is not 0xaa36a7 returns without issuing any request.
C5_TransferGuard ==
    [][\A i \in Slots :
        (Clicked("transferAccount", i) /\ (accounts = <<>> \/ chainId # "0xaa36a7"))
        => /\ inv'[i].op = "transferAccount"
           /\ inv'[i].reqs = <<>>
           /\ inv'[i].pc = "done"
           /\ OthersKept(i)
      ]_vars

\* C5 witness: with accounts connected and the chain changed to another id,
\* transferAccount() has returned without a request
C5_Witness ==
    \E i \in Slots :
        /\ lastEvent.kind = "transferAccount" /\ lastEvent.id = i
        /\ provider = "ethereum" /\ accounts # <<>> /\ chainId = "0x1388"
        /\ inv[i].reqs = <<>> /\ inv[i].pc = "done"

\* C6: a transferAccount() invoked with a provider, at least one account and
\* chain identifier 0xaa36a7 issues exactly one request, eth_sendTransaction,
\* from the first account of the list to the fixed recipient for the fixed
\* value, and issues no further request when the provider answers.
C6_TransferRequest ==
    [][\A i \in Slots :
        /\ (Clicked("transferAccount", i) /\ provider # "null"
              /\ accounts # <<>> /\ chainId = "0xaa36a7")
           => /\ inv'[i].reqs =
                   << [method |-> "eth_sendTransaction",
                       params |-> << [from |-> accounts[1],
                                      to |-> "0x5b522A979ea2a5121b651756CD4274C92386f8C2",
                                      value |-> "0x38D7EA4C68000"] >>] >>
              /\ inv'[i].pc = "awaitTx"
              /\ OthersKept(i)
        /\ (inv[i].op = "transferAccount" /\ inv[i].pc = "awaitTx")
           => (inv'[i].reqs = inv[i].reqs /\ inv'[i].pc \in {"awaitTx", "done"})
      ]_vars

\* C6 witness: the transaction was requested from the first of two accounts
\* and the provider has answered
C6_Witness ==
    \E i \in Slots :
        /\ inv[i].op = "transferAccount" /\ inv[i].pc = "done"
        /\ Len(inv[i].reqs) = 1
        /\ inv[i].reqs[1].params[1].from = Addr2
        /\ inv[i].out = <<"Transaction sent:">>

\* C7: toggleChain() with a provider requests wallet_switchEthereumChain with
\* target 0x1 when the chain identifier is 0xaa36a7 and with target 0xaa36a7
\* when the chain identifier is anything else (0x1, a third id, or empty).
C7_ToggleTarget ==
    [][\A i \in Slots :
        (Clicked("toggleChain", i) /\ provider # "null")
        => /\ Methods(inv'[i]) = <<"wallet_switchEthereumChain">>
           /\ chainId = "0xaa36a7" => inv'[i].reqs[1].params = <<[chainId |-> "0x1"]>>
           /\ chainId # "0xaa36a7" => inv'[i].reqs[1].params = <<[chainId |-> "0xaa36a7"]>>
           /\ chainId \in {"0x1", "0x1388", ""}
                 => inv'[i].reqs[1].params[1].chainId = "0xaa36a7"
      ]_vars

\* C7 witness: on a third chain, toggleChain() has requested the secondary id
C7_Witness ==
    \E i \in Slots :
        /\ lastEvent.kind = "toggleChain" /\ lastEvent.id = i
        /\ chainId = "0x1388"
        /\ inv[i].reqs = <<[method |-> "wallet_switchEthereumChain",
                            params |-> <<[chainId |-> "0xaa36a7"]>>]>>

\* C8: an accountsChanged notification delivered to the handler stores a
\* non-empty payload as the account list and sets the connection flag; an
\* empty payload empties the list and clears the flag; the chain identifier
\* is unchanged either way.
C8_AccountsChanged ==
    [][lastEvent'.kind = "accountsChanged" =>
        /\ lastEvent'.payload.accounts # <<>>
              => (accounts' = lastEvent'.payload.accounts /\ isConnected' = TRUE)
        /\ lastEvent'.payload.accounts = <<>>
              => (accounts' = <<>> /\ isConnected' = FALSE)
        /\ chainId' = chainId
      ]_vars

\* C8 witness: an empty payload was delivered after a chain had been stored
C8_Witness ==
    /\ lastEvent.kind = "accountsChanged"
    /\ lastEvent.payload.accounts = <<>>
    /\ accounts = <<>> /\ ~isConnected
    /\ chainId = "0xaa36a7"

\* C9: disconnect() with a provider sets the account list to empty, the chain
\* identifier to empty and the connection flag to false, and issues no
\* request.
C9_DisconnectClears ==
    [][\A i \in Slots :
        (Clicked("disconnect", i) /\ provider # "null")
        => /\ accounts' = <<>>
           /\ chainId' = ""
           /\ isConnected' = FALSE
           /\ inv'[i].reqs = <<>>
           /\ inv'[i].pc = "done"
           /\ OthersKept(i)
      ]_vars

\* C9 witness: disconnect() has cleared a state that was not the initial one
C9_Witness ==
    \E i \in Slots :
        /\ lastEvent.kind = "disconnect" /\ lastEvent.id = i
        /\ provider = "ethereum"
        /\ inv[i].changed
        /\ accounts = <<>> /\ chainId = "" /\ ~isConnected

\* C10: a chainChanged notification delivered to the handler sets the chain
\* identifier to its payload and leaves the account list and the connection
\* flag unchanged.
C10_ChainChanged ==
    [][lastEvent'.kind = "chainChanged" =>
        /\ chainId' = lastEvent'.payload.chainId
        /\ accounts' = accounts
        /\ isConnected' = isConnected
      ]_vars

\* C10 witness: a chain id was delivered while accounts were connected
C10_Witness ==
    /\ lastEvent.kind = "chainChanged"
    /\ lastEvent.payload.chainId = "0x1388"
    /\ chainId = "0x1388"
    /\ accounts = <<Addr1>> /\ isConnected

\* C11: no step of toggleChain(), addChain() or transferAccount() (the click,
\* the provider resolving, the provider rejecting) changes the account list,
\* the chain identifier or the connection flag; the chain identifier changes
\* only in a step of connect(), of a chainChanged notification or of
\* disconnect().
C11_RequestsKeepView ==
    [][/\ \A i \in Slots :
            (\/ Clicked("toggleChain", i) \/ Clicked("addChain", i)
             \/ Clicked("transferAccount", i)
             \/ /\ Resolved(i) \/ Rejected(i)
                /\ inv[i].op \in {"toggleChain", "addChain", "transferAccount"})
            => /\ accounts' = accounts
               /\ chainId' = chainId
               /\ isConnected' = isConnected
               /\ inv'[i].changed = FALSE
       /\ chainId' # chainId
            => \/ lastEvent'.kind \in {"chainChanged", "disconnect"}
               \/ /\ lastEvent'.kind = "resolved"
                  /\ lastEvent'.id \in Slots
                  /\ inv[lastEvent'.id].op = "connect"
      ]_vars

\* C11 witness: wallet_switchEthereumChain has resolved and the local chain
\* identifier is still not the requested target
C11_Witness ==
    \E i \in Slots :
        /\ lastEvent.kind = "resolved" /\ lastEvent.id = i
        /\ inv[i].op = "toggleChain" /\ inv[i].out = <<"Switching to">>
        /\ inv[i].reqs[1].params[1].chainId = "0xaa36a7"
        /\ chainId = "0x1"
        /\ accounts # <<>>

\* the number of requests for method m that invocation record r has issued
Count(r, m) == Cardinality({k \in DOMAIN r.reqs : r.reqs[k].method = m})

\* C12: one invocation of toggleChain, addChain or transferAccount issues at
\* most one provider request; one invocation of connect issues at most one
\* eth_requestAccounts and at most one eth_chainId; the step in which a
\* request is rejected issues no request and ends the invocation (so a
\* wallet_switchEthereumChain rejected with 4902 is not followed by
\* wallet_addEthereumChain).
C12_NoRetry ==
    [][\A i \in Slots :
        /\ inv'[i].op \in {"toggleChain", "addChain", "transferAccount"}
              => Len(inv'[i].reqs) <= 1
        /\ inv'[i].op = "connect"
              => /\ Count(inv'[i], "eth_requestAccounts") <= 1
                 /\ Count(inv'[i], "eth_chainId") <= 1
                 /\ Len(inv'[i].reqs) <= 2
        /\ inv'[i].op = "disconnect" => inv'[i].reqs = <<>>
        /\ Rejected(i)
              => /\ inv'[i].reqs = inv[i].reqs
                 /\ inv'[i].pc = "done"
                 /\ ~(inv[i].op = "toggleChain"
                        /\ Requested(inv'[i], "wallet_addEthereumChain"))
      ]_vars

\* C12 witness: a wallet_switchEthereumChain was rejected with code 4902 and
\* the invocation has ended with that one request
C12_Witness ==
    \E i \in Slots :
        /\ lastEvent.kind = "rejected" /\ lastEvent.id = i
        /\ inv[i].op = "toggleChain" /\ inv[i].pc = "done"
        /\ inv[i].out = <<"Error switching chain:",
                          "Chain not available, please add it first">>
        /\ Methods(inv[i]) = <<"wallet_switchEthereumChain">>

\* strings that are none of the three known chain identifiers
UnknownIds == {"", "0x5", "1", "0x01", "0X1", "0xAA36A7", "0x1389", "Mantle"}

\* C13: for the chain identifier of every reachable state, and for a set of
\* other strings, getNetworkName returns "Ethereum Mainnet" for 0x1,
\* "Sepolia Testnet" for 0xaa36a7, "Mantle" for 0x1388 and "Unknown Network"
\* for anything else, the empty string included.
C13_NetworkName ==
    /\ chainId = "0x1" => getNetworkName(chainId) = "Ethereum Mainnet"
    /\ chainId = "0xaa36a7" => getNetworkName(chainId) = "Sepolia Testnet"
    /\ chainId = "0x1388" => getNetworkName(chainId) = "Mantle"
    /\ chainId \notin {"0x1", "0xaa36a7", "0x1388"}
          => getNetworkName(chainId) = "Unknown Network"
    /\ \A id \in UnknownIds : getNetworkName(id) = "Unknown Network"

\* C13 witness: the panel shows the connection details on the third chain
C13_Witness ==
    /\ isConnected
    /\ chainId = "0x1388"
    /\ getNetworkName(chainId) = "Mantle"

\* this step is the provider emitting a notification
Emitted == lastEvent'.kind \in {"accountsChanged", "chainChanged", "unheard"}

\* C14: no event ever has more than one handler registered and none is
\* registered without a provider handle; once the listener effect has run for
\* the provider handle exactly one accountsChanged and one chainChanged handler
\* are registered while the panel is mounted; teardown with a provider that
\* has removeListener unregisters both, and a notification emitted after that
\* reaches no handler and changes no local state; teardown with a provider
\* without removeListener completes and leaves the handlers registered.
C14_SubscriptionLifetime ==
    [][/\ listeners'.accountsChanged <= 1 /\ listeners'.chainChanged <= 1
       /\ provider' = "null"
             => listeners' = [accountsChanged |-> 0, chainChanged |-> 0]
       /\ (phase' = "mounted" /\ provider' # "null" /\ effectDep' = provider')
             => listeners' = [accountsChanged |-> 1, chainChanged |-> 1]
       /\ (lastEvent'.kind = "effect" /\ provider # "null")
             => listeners' = [accountsChanged |-> 1, chainChanged |-> 1]
       /\ (lastEvent'.kind = "unmount" /\ windowEthereum = "full")
             => /\ phase' = "unmounted"
                /\ listeners' = [accountsChanged |-> 0, chainChanged |-> 0]
       /\ (lastEvent'.kind = "unmount" /\ windowEthereum = "noRemoveListener")
             => /\ phase' = "unmounted"
                /\ listeners' = listeners
       /\ (phase = "unmounted" /\ windowEthereum = "full" /\ Emitted)
             => /\ lastEvent'.kind = "unheard"
                /\ accounts' = accounts
                /\ chainId' = chainId
                /\ isConnected' = isConnected
      ]_vars

\* C14 witness: after teardown with removeListener, an accountsChanged
\* notification with an empty list was emitted and the accounts are still there
C14_Witness ==
    /\ phase = "unmounted"
    /\ windowEthereum = "full"
    /\ effectDep = "ethereum"
    /\ listeners = [accountsChanged |-> 0, chainChanged |-> 0]
    /\ lastEvent.kind = "unheard"
    /\ lastEvent.payload.accounts = <<>> /\ lastEvent.payload.chainId = ""
    /\ accounts # <<>> /\ isConnected

\* the view state is as disconnect() leaves it
Cleared == accounts = <<>> /\ chainId = "" /\ isConnected = FALSE

\* C15: a disconnect() that runs while a connect() is waiting for
\* eth_requestAccounts or eth_chainId leaves that invocation waiting; when the
\* provider then resolves the request, from the state disconnect() cleared,
\* connect() stores the returned accounts and sets the connection flag
\* (eth_requestAccounts) or stores the returned chain identifier (eth_chainId).
C15_ConnectOutlivesDisconnect ==
    [][\A i \in Slots :
        (inv[i].op = "connect" /\ inv[i].pc \in {"awaitAccounts", "awaitChainId"})
        => /\ (\E j \in Slots : Clicked("disconnect", j))
                 => inv'[i] = inv[i]
           /\ (Cleared /\ Resolved(i) /\ inv[i].pc = "awaitAccounts")
                 => /\ accounts' = lastEvent'.payload.accounts
                    /\ isConnected' = TRUE
                    /\ inv'[i].pc = "awaitChainId"
           /\ (Cleared /\ Resolved(i) /\ inv[i].pc = "awaitChainId")
                 => /\ chainId' = lastEvent'.payload.chainId
                    /\ chainId' # ""
                    /\ inv'[i].pc = "done"
      ]_vars

\* C15 witness: disconnect() has just cleared a connected state while a
\* connect() is waiting for eth_requestAccounts, and the provider can still
\* resolve that request
C15_Witness ==
    \E i, j \in Slots :
        /\ lastEvent.kind = "disconnect" /\ lastEvent.id = j
        /\ inv[j].op = "disconnect" /\ inv[j].changed
        /\ Cleared
        /\ inv[i].op = "connect" /\ inv[i].pc = "awaitAccounts"
        /\ ENABLED connectAccounts(i, <<Addr1>>)

\* the diagnostic the catch block of handler op writes first
Diagnostic(op) ==
    CASE op = "connect" -> "Connection error:"
      [] op = "toggleChain" -> "Error switching chain:"
      [] op = "addChain" -> "Error adding chain:"
      [] op = "transferAccount" -> "Transaction error:"
      [] OTHER -> "none"

\* the positions at which a handler is suspended on a provider request
Suspended == {"awaitAccounts", "awaitChainId", "awaitSwitch", "awaitAdd", "awaitTx"}

\* C16: every step of an invocation leaves it either returned or suspended on
\* a provider request (no exception escapes); a step in which the provider
\* rejects the request, with code 4902, another code or no code, ends the
\* invocation in its own catch block with the handler's diagnostic; a step in
\* which the provider resolves the request ends the invocation or, for
\* connect() after eth_requestAccounts, suspends it on eth_chainId; and
\* disconnect() returns in the step of the click.
C16_HandlersComplete ==
    [][\A i \in Slots :
        /\ inv'[i].pc \in Suspended \cup {"idle", "done"}
        /\ Rejected(i)
              => /\ inv[i].pc \in Suspended
                 /\ inv'[i].pc = "done"
                 /\ Len(inv'[i].out) > Len(inv[i].out)
                 /\ inv'[i].out[Len(inv[i].out) + 1] = Diagnostic(inv[i].op)
        /\ Resolved(i)
              => /\ inv[i].pc \in Suspended
                 /\ IF inv[i].pc = "awaitAccounts"
                    THEN inv'[i].pc = "awaitChainId"
                    ELSE inv'[i].pc = "done"
        /\ Clicked("disconnect", i) => inv'[i].pc = "done"
      ]_vars

\* C16 witness: the eth_chainId request of a connect() was rejected and the
\* invocation has returned through its catch block
C16_Witness ==
    \E i \in Slots :
        /\ lastEvent.kind = "rejected" /\ lastEvent.id = i
        /\ inv[i].op = "connect" /\ inv[i].pc = "done"
        /\ Methods(inv[i]) = <<"eth_requestAccounts", "eth_chainId">>
        /\ inv[i].out = <<"Connection error:">>

====
